---- MODULE Spec2Model ----
(***************************************************************************)
(* Model of the bae_sf sample formats: Mono (src/src/mono.rs) and Stereo   *)
(* (src/src/stereo.rs) with the SampleFormat / Panner contracts of         *)
(* src/src/lib.rs.                                                         *)
(*                                                                         *)
(* Sample wraps an f32 (FastMath), Math wraps an f64 (AccurateMath).  A    *)
(* floating value is modelled exactly as a dyadic rational m * 2^e, kept   *)
(* in canonical form (m odd, or m = 0 and e = 0), and every f32 operation  *)
(* rounds its exact result to 24 significant bits, ties to even, as the    *)
(* hardware does.  Inputs are drawn from sets small enough that no exact   *)
(* intermediate needs more than 31 bits, so every f64 operation of the     *)
(* model is exact (an f64 carries 53 bits) and exponent overflow and       *)
(* underflow never occur.                                                  *)
(***************************************************************************)
EXTENDS Integers, Sequences, FiniteSets, TLC

(***************************************************************************)
(* Bounds of the model.                                                    *)
(***************************************************************************)
\* longest vector handed to try_from
MaxLen == 3
\* pan positions g are the multiples of 2^-GBits in [-1, 1]
GBits == 2
\* sample operands are the multiples of 2^-SBits with numerator in -SNum..SNum
SBits == 1
SNum == 3

(***************************************************************************)
(* Dyadic rationals and IEEE rounding.                                     *)
(***************************************************************************)
RECURSIVE Pow2(_)
Pow2(n) == IF n <= 0 THEN 1 ELSE 2 * Pow2(n - 1)

Abs(n) == IF n < 0 THEN -n ELSE n

Sgn(n) == IF n < 0 THEN -1 ELSE 1

\* number of significant bits of n >= 0
RECURSIVE BitLen(_)
BitLen(n) == IF n = 0 THEN 0 ELSE 1 + BitLen(n \div 2)

\* canonical form of m * 2^e
RECURSIVE Norm(_, _)
Norm(m, e) ==
    IF m = 0 THEN [m |-> 0, e |-> 0]
    ELSE IF m % 2 = 0 THEN Norm(m \div 2, e + 1)
    ELSE [m |-> m, e |-> e]

Zero == [m |-> 0, e |-> 0]

One == [m |-> 1, e |-> 0]

DNeg(x) == [m |-> -x.m, e |-> x.e]

DMul(x, y) == Norm(x.m * y.m, x.e + y.e)

DAdd(x, y) ==
    LET e == IF x.e < y.e THEN x.e ELSE y.e
    IN  Norm(x.m * Pow2(x.e - e) + y.m * Pow2(y.e - e), e)

DSub(x, y) == DAdd(x, DNeg(y))

DLess(x, y) == DSub(x, y).m < 0

\* round the exact value x to p significant bits, ties to even
RoundTo(x, p) ==
    LET a == Abs(x.m)
        k == BitLen(a) - p
    IN  IF k <= 0 THEN x
        ELSE LET q == a \div Pow2(k)
                 r == a % Pow2(k)
                 h == Pow2(k - 1)
                 up == r > h \/ (r = h /\ q % 2 = 1)
             IN  Norm(Sgn(x.m) * (IF up THEN q + 1 ELSE q), x.e + k)

\* the cast `as FastMath` (f32 has 24 significant bits)
AsFastMath(x) == RoundTo(x, 24)

F32Add(x, y) == AsFastMath(DAdd(x, y))

F32Sub(x, y) == AsFastMath(DSub(x, y))

F32Mul(x, y) == AsFastMath(DMul(x, y))

\* long division: n more quotient bits of rem / d appended to q; the result
\* is the quotient and the last remainder
RECURSIVE DivBits(_, _, _, _)
DivBits(q, rem, d, n) ==
    IF n = 0 THEN <<q, rem>>
    ELSE LET r2 == 2 * rem
         IN  IF r2 >= d THEN DivBits(2 * q + 1, r2 - d, d, n - 1)
             ELSE DivBits(2 * q, r2, d, n - 1)

\* f32 division x / y (y # 0): 26 quotient bits and a sticky bit, then rounded
F32Div(x, y) ==
    IF x.m = 0 THEN Zero
    ELSE LET ax == Abs(x.m)
             ay == Abs(y.m)
             sx == 24 - BitLen(ax)
             sy == 24 - BitLen(ay)
             nx == ax * Pow2(sx)
             ny == ay * Pow2(sy)
             qr == DivBits(nx \div ny, nx % ny, ny, 25)
             st == IF qr[2] = 0 THEN 0 ELSE 1
             e  == (x.e - sx) - (y.e - sy) - 26
         IN  AsFastMath(Norm(Sgn(x.m) * Sgn(y.m) * (2 * qr[1] + st), e))

(***************************************************************************)
(* The collaborators of the bae_utils crate, which the spec describes and  *)
(* whose code is not part of these sources.                                *)
(***************************************************************************)
\* f64 division by a power of two (every interpolation below has a domain
\* of width 1, so this is the only division the sample formats request)
F64DivPow2(x, y) == Norm(Sgn(y.m) * x.m, x.e - y.e)

\* lerp: ((y2 - y1) / (x2 - x1)) * (x - x1) + y1
lerp(x, x1, x2, y1, y2) ==
    DAdd(DMul(F64DivPow2(DSub(y2, y1), DSub(x2, x1)), DSub(x, x1)), y1)

\* clerp: linear interpolation of x from [x1, x2] to [y1, y2]; x is only
\* ever taken inside [x1, x2], where clamping x to the domain changes nothing
clerp(x, x1, x2, y1, y2) == lerp(x, x1, x2, y1, y2)

\* 2^(1/2), 2^(1/4), ..., 2^(2^-14), each in units of 2^-14
RootsOfTwo ==
    << 23170, 19484, 17867, 17109, 16743, 16562, 16473,
       16428, 16406, 16395, 16390, 16387, 16385, 16385 >>

\* 2^(f / 2^14) in units of 2^-14, for 0 <= f < 2^14: the product of the
\* roots of two selected by the bits of f, bit i of the fraction from the top
RECURSIVE Exp2Frac(_, _, _)
Exp2Frac(f, i, acc) ==
    IF i > 14 THEN acc
    ELSE IF (f \div Pow2(14 - i)) % 2 = 1
         THEN Exp2Frac(f, i + 1, (acc * RootsOfTwo[i]) \div Pow2(14))
         ELSE Exp2Frac(f, i + 1, acc)

\* db_to_linear: 10^(db / 20) = 2^(db * log2(10) / 20), evaluated to 14
\* fractional bits (log2(10) / 20 = 2721 * 2^-14); 0 dB is exactly 1
db_to_linear(db) ==
    LET t == IF db.e >= 0 THEN db.m * Pow2(db.e) * 2721
             ELSE (db.m * 2721) \div Pow2(-db.e)
        n == t \div Pow2(14)
        f == t % Pow2(14)
    IN  Norm(Exp2Frac(f, 1, Pow2(14)), n - 14)

\* the integer part of x, towards zero (a float to integer cast)
DTrunc(x) ==
    IF x.e >= 0 THEN x.m * Pow2(x.e)
    ELSE Sgn(x.m) * (Abs(x.m) \div Pow2(-x.e))

\* a float to integer cast saturates at the integer type's range
Saturate(n, lo, hi) == IF n < lo THEN lo ELSE IF n > hi THEN hi ELSE n

FromInt(n) == Norm(n, 0)

\* 8 bit: bytes 0..255 map linearly onto [-1, 1)
sample_from_u8(v) == AsFastMath(Norm(v - 128, -7))

sample_to_u8(s) ==
    Saturate(DTrunc(F32Add(F32Mul(s, FromInt(128)), FromInt(128))), 0, 255)

\* 16 bit: -32768..32767 map linearly onto [-1, 1)
sample_from_i16(v) == AsFastMath(Norm(v, -15))

sample_to_i16(s) ==
    Saturate(DTrunc(F32Mul(s, FromInt(32768))), -32768, 32767)

\* 24 bit in an i32: -2^23..2^23-1 map linearly onto [-1, 1)
sample_from_i24(v) == AsFastMath(Norm(v, -23))

sample_to_i24(s) ==
    Saturate(DTrunc(F32Mul(s, FromInt(8388608))), -8388608, 8388607)

(***************************************************************************)
(* Results of the fallible conversions.                                    *)
(***************************************************************************)
Ok(val) == [ok |-> TRUE, val |-> val]

Err(msg) == [ok |-> FALSE, err |-> msg]

(***************************************************************************)
(* Mono (src/src/mono.rs).                                                 *)
(***************************************************************************)
Mono_from_sample(x) == [mono |-> x]

Mono_into_sample(self) == self.mono

Mono_num_samples == 1

Mono_to_sample_format(s, g) == [mono |-> s]

Mono_neg(self) == [mono |-> DNeg(self.mono)]

Mono_add(self, rhs) == [mono |-> F32Add(self.mono, rhs.mono)]

Mono_add_assign(self, rhs) == [self EXCEPT !.mono = F32Add(@, rhs.mono)]

\* the non-mutating subtraction adds (mono.rs line 83)
Mono_sub(self, rhs) == [mono |-> F32Add(self.mono, rhs.mono)]

Mono_sub_assign(self, rhs) == [self EXCEPT !.mono = F32Sub(@, rhs.mono)]

Mono_mul(self, rhs) == [mono |-> F32Mul(self.mono, rhs.mono)]

Mono_mul_assign(self, rhs) == [self EXCEPT !.mono = F32Mul(@, rhs.mono)]

Mono_mul_Sample(self, rhs) == [mono |-> F32Mul(self.mono, rhs)]

Mono_mul_assign_Sample(self, rhs) == [self EXCEPT !.mono = F32Mul(@, rhs)]

\* the product is taken in f64 and cast to f32
Mono_mul_Math(self, rhs) == [mono |-> AsFastMath(DMul(self.mono, rhs))]

Mono_mul_assign_Math(self, rhs) ==
    [self EXCEPT !.mono = AsFastMath(DMul(self.mono, rhs))]

Mono_try_from_u8(v) ==
    IF Len(v) < 1
    THEN Err("ERROR: Given vector was length " \o ToString(Len(v))
             \o ". This function requires length 1.")
    ELSE Ok([mono |-> sample_from_u8(v[1])])

Mono_into_u8(self) == << sample_to_u8(self.mono) >>

Mono_try_from_i16(v) ==
    IF Len(v) < 1
    THEN Err("ERROR: Given vector was length " \o ToString(Len(v))
             \o ". This function requires length 1.")
    ELSE Ok([mono |-> sample_from_i16(v[1])])

Mono_into_i16(self) == << sample_to_i16(self.mono) >>

Mono_try_from_i32(v) ==
    IF Len(v) < 1
    THEN Err("ERROR: Given vector was length " \o ToString(Len(v))
             \o ". This function requires length 1.")
    ELSE Ok([mono |-> sample_from_i24(v[1])])

Mono_into_i32(self) == << sample_to_i24(self.mono) >>

(***************************************************************************)
(* Stereo (src/src/stereo.rs).                                             *)
(***************************************************************************)
\* FastMath::sqrt(0.5): the f32 nearest to the square root of one half,
\* 0x3F3504F3 = 11863283 * 2^-24
SqrtHalf == [m |-> 11863283, e |-> -24]

Stereo_from_sample(x) ==
    [left |-> F32Mul(x, SqrtHalf), right |-> F32Mul(x, SqrtHalf)]

Stereo_into_sample(self) == F32Div(F32Add(self.left, self.right), SqrtHalf)

Stereo_num_samples == 2

\* the left curve in dB, as the if/else of lines 64-68 and 95-99 computes it
Stereo_l_lerp(g) ==
    IF ~ DLess(Zero, g)
    THEN clerp(g, FromInt(-1), Zero, FromInt(-3), FromInt(-120))
    ELSE clerp(g, Zero, One, Zero, FromInt(-3))

\* the right curve in dB, lines 69-73 and 100-104
Stereo_r_lerp(g) ==
    IF ~ DLess(g, Zero)
    THEN clerp(g, Zero, One, FromInt(-3), FromInt(-120))
    ELSE clerp(g, FromInt(-1), Zero, Zero, FromInt(-3))

\* Panner<f32>: g is an f32, widened exactly to f64 for the interpolation
Stereo_to_sample_format_f32(s, g) ==
    [left  |-> AsFastMath(DMul(db_to_linear(Stereo_l_lerp(g)), s)),
     right |-> AsFastMath(DMul(db_to_linear(Stereo_r_lerp(g)), s))]

\* Panner<f64>
Stereo_to_sample_format_f64(s, g) ==
    [left  |-> AsFastMath(DMul(db_to_linear(Stereo_l_lerp(g)), s)),
     right |-> AsFastMath(DMul(db_to_linear(Stereo_r_lerp(g)), s))]

Stereo_neg(self) == [left |-> DNeg(self.left), right |-> DNeg(self.right)]

Stereo_add(self, rhs) ==
    [left  |-> F32Add(self.left, rhs.left),
     right |-> F32Add(self.right, rhs.right)]

Stereo_add_assign(self, rhs) ==
    [self EXCEPT !.left = F32Add(@, rhs.left), !.right = F32Add(@, rhs.right)]

Stereo_sub(self, rhs) ==
    [left  |-> F32Sub(self.left, rhs.left),
     right |-> F32Sub(self.right, rhs.right)]

Stereo_sub_assign(self, rhs) ==
    [self EXCEPT !.left = F32Sub(@, rhs.left), !.right = F32Sub(@, rhs.right)]

Stereo_mul(self, rhs) ==
    [left  |-> F32Mul(self.left, rhs.left),
     right |-> F32Mul(self.right, rhs.right)]

Stereo_mul_assign(self, rhs) ==
    [self EXCEPT !.left = F32Mul(@, rhs.left), !.right = F32Mul(@, rhs.right)]

Stereo_mul_Sample(self, rhs) ==
    [left |-> F32Mul(self.left, rhs), right |-> F32Mul(self.right, rhs)]

Stereo_mul_assign_Sample(self, rhs) ==
    [self EXCEPT !.left = F32Mul(@, rhs), !.right = F32Mul(@, rhs)]

\* the product is taken in f64 and cast to f32
Stereo_mul_Math(self, rhs) ==
    [left  |-> AsFastMath(DMul(self.left, rhs)),
     right |-> AsFastMath(DMul(self.right, rhs))]

\* the gain is cast to f32 first and the product taken in f32
Stereo_mul_assign_Math(self, rhs) ==
    [self EXCEPT !.left = F32Mul(@, AsFastMath(rhs)),
                 !.right = F32Mul(@, AsFastMath(rhs))]

\* a variant that accepts vectors of exactly two elements only
Stereo_try_from_u8_ExactLength(v) ==
    IF Len(v) # 2
    THEN Err("ERROR: Given vector was length " \o ToString(Len(v))
             \o ". This function requires length 2.")
    ELSE Ok([left |-> sample_from_u8(v[1]), right |-> sample_from_u8(v[2])])

Stereo_try_from_u8(v) ==
    IF Len(v) < 2
    THEN Err("ERROR: Given vector was length " \o ToString(Len(v))
             \o ". This function requires length 2.")
    ELSE Ok([left |-> sample_from_u8(v[1]), right |-> sample_from_u8(v[2])])

Stereo_into_u8(self) == << sample_to_u8(self.left), sample_to_u8(self.right) >>

\* a variant whose message was copied from Mono and still names length 1
Stereo_try_from_i16_MonoMessage(v) ==
    IF Len(v) < 2
    THEN Err("ERROR: Given vector was length " \o ToString(Len(v))
             \o ". This function requires length 1.")
    ELSE Ok([left |-> sample_from_i16(v[1]), right |-> sample_from_i16(v[2])])

Stereo_try_from_i16(v) ==
    IF Len(v) < 2
    THEN Err("ERROR: Given vector was length " \o ToString(Len(v))
             \o ". This function requires length 2.")
    ELSE Ok([left |-> sample_from_i16(v[1]), right |-> sample_from_i16(v[2])])

\* a variant that writes the right channel first
Stereo_into_i16_Swapped(self) ==
    << sample_to_i16(self.right), sample_to_i16(self.left) >>

Stereo_into_i16(self) ==
    << sample_to_i16(self.left), sample_to_i16(self.right) >>

Stereo_try_from_i32(v) ==
    IF Len(v) < 2
    THEN Err("ERROR: Given vector was length " \o ToString(Len(v))
             \o ". This function requires length 2.")
    ELSE Ok([left |-> sample_from_i24(v[1]), right |-> sample_from_i24(v[2])])

Stereo_into_i32(self) ==
    << sample_to_i24(self.left), sample_to_i24(self.right) >>

(***************************************************************************)
(* Trait dispatch: the implementation of each SampleFormat / Panner        *)
(* operation for the format f.                                             *)
(***************************************************************************)
Formats == {"Mono", "Stereo"}

from_sample(f, x) ==
    IF f = "Mono" THEN Mono_from_sample(x) ELSE Stereo_from_sample(x)

into_sample(f, a) ==
    IF f = "Mono" THEN Mono_into_sample(a) ELSE Stereo_into_sample(a)

num_samples(f) == IF f = "Mono" THEN Mono_num_samples ELSE Stereo_num_samples

to_sample_format(f, t, s, g) ==
    IF f = "Mono" THEN Mono_to_sample_format(s, g)
    ELSE IF t = "f32" THEN Stereo_to_sample_format_f32(s, g)
    ELSE Stereo_to_sample_format_f64(s, g)

neg(f, a) == IF f = "Mono" THEN Mono_neg(a) ELSE Stereo_neg(a)

\* the non-mutating operators, by name
binary(f, op, a, b) ==
    CASE op = "add"        -> IF f = "Mono" THEN Mono_add(a, b) ELSE Stereo_add(a, b)
      [] op = "sub"        -> IF f = "Mono" THEN Mono_sub(a, b) ELSE Stereo_sub(a, b)
      [] op = "mul"        -> IF f = "Mono" THEN Mono_mul(a, b) ELSE Stereo_mul(a, b)
      [] op = "mul_Sample" -> IF f = "Mono" THEN Mono_mul_Sample(a, b)
                              ELSE Stereo_mul_Sample(a, b)
      [] op = "mul_Math"   -> IF f = "Mono" THEN Mono_mul_Math(a, b)
                              ELSE Stereo_mul_Math(a, b)

\* the in-place operators, by the name of their non-mutating form: the value
\* of the receiver after `a op= b`
assign(f, op, a, b) ==
    CASE op = "add"        -> IF f = "Mono" THEN Mono_add_assign(a, b)
                              ELSE Stereo_add_assign(a, b)
      [] op = "sub"        -> IF f = "Mono" THEN Mono_sub_assign(a, b)
                              ELSE Stereo_sub_assign(a, b)
      [] op = "mul"        -> IF f = "Mono" THEN Mono_mul_assign(a, b)
                              ELSE Stereo_mul_assign(a, b)
      [] op = "mul_Sample" -> IF f = "Mono" THEN Mono_mul_assign_Sample(a, b)
                              ELSE Stereo_mul_assign_Sample(a, b)
      [] op = "mul_Math"   -> IF f = "Mono" THEN Mono_mul_assign_Math(a, b)
                              ELSE Stereo_mul_assign_Math(a, b)

try_from(f, t, v) ==
    CASE t = "u8"  -> IF f = "Mono" THEN Mono_try_from_u8(v) ELSE Stereo_try_from_u8(v)
      [] t = "i16" -> IF f = "Mono" THEN Mono_try_from_i16(v) ELSE Stereo_try_from_i16(v)
      [] t = "i32" -> IF f = "Mono" THEN Mono_try_from_i32(v) ELSE Stereo_try_from_i32(v)

into_vec(f, t, a) ==
    CASE t = "u8"  -> IF f = "Mono" THEN Mono_into_u8(a) ELSE Stereo_into_u8(a)
      [] t = "i16" -> IF f = "Mono" THEN Mono_into_i16(a) ELSE Stereo_into_i16(a)
      [] t = "i32" -> IF f = "Mono" THEN Mono_into_i32(a) ELSE Stereo_into_i32(a)

(***************************************************************************)
(* Inputs.                                                                 *)
(***************************************************************************)
\* 2^-24, half an ulp of 1: a sample that f32 addition to 1 rounds away
Tiny == [m |-> 1, e |-> -24]

Samples == {Norm(n, -SBits) : n \in -SNum .. SNum} \cup {Tiny}

\* 1 + 2^-24 is an f64 gain that is no f32
Maths ==
    {Zero, One, Norm(1, -1), FromInt(-2), [m |-> 16777217, e |-> -24]}

Gains == {Norm(k, -GBits) : k \in -Pow2(GBits) .. Pow2(GBits)}

Values(f) ==
    IF f = "Mono" THEN {[mono |-> s] : s \in Samples}
    ELSE [left : Samples, right : Samples]

IntTypes == {"u8", "i16", "i32"}

GainTypes == {"f32", "f64"}

Elems(t) ==
    CASE t = "u8"  -> {0, 128, 255}
      [] t = "i16" -> {-32768, 0, 32767}
      [] t = "i32" -> {-8388608, 0, 8388607}

Vecs(t) == UNION {[1 .. n -> Elems(t)] : n \in 0 .. MaxLen}

BinaryOps == {"add", "sub", "mul", "mul_Sample", "mul_Math"}

Operands(f, op) ==
    CASE op = "mul_Sample" -> Samples
      [] op = "mul_Math"   -> Maths
      [] OTHER             -> Values(f)

(***************************************************************************)
(* The state: the last call made on the library and what it returned.      *)
(***************************************************************************)
VARIABLES
    pc,     \* the operation last executed
    fmt,    \* the format it was executed for
    ty,     \* the integer type of a vector conversion, the gain type of a pan
    self,   \* the receiver (its value before an in-place operation)
    arg,    \* the other argument
    ret,    \* the value returned (the receiver after an in-place operation)
    lerps,  \* the locals l_lerp and r_lerp of Stereo::to_sample_format, in dB
    base    \* when the call consumed the previous call's result to undo it
            \* (a + b then - b, from_sample then into_sample): the value the
            \* expression started from

vars == << pc, fmt, ty, self, arg, ret, lerps, base >>

None == [none |-> TRUE]

Init ==
    /\ pc = "new"
    /\ fmt \in Formats
    /\ ty = "none"
    /\ self = None
    /\ arg = None
    /\ ret = IF fmt = "Mono" THEN [mono |-> Zero] ELSE [left |-> Zero, right |-> Zero]
    /\ lerps = None
    /\ base = {}

\* A call is made on freshly constructed operands (pc = "new") of the
\* format under test; into_sample may also consume the result of from_sample
\* and sub the result of add, which evaluates from_sample(s).into_sample()
\* and (a + b) - b.

FromSample ==
    /\ pc = "new"
    /\ \E s \in Samples :
        /\ pc' = "from_sample"
        /\ self' = None
        /\ arg' = s
        /\ ret' = from_sample(fmt, s)
        /\ base' = {}
        /\ UNCHANGED << fmt, ty, lerps >>

IntoSample ==
    /\ pc = "new"
    /\ \E a \in Values(fmt) :
        /\ pc' = "into_sample"
        /\ self' = a
        /\ arg' = None
        /\ ret' = into_sample(fmt, a)
        /\ base' = {}
        /\ UNCHANGED << fmt, ty, lerps >>

\* from_sample(s).into_sample()
IntoSampleOfFromSample ==
    /\ pc = "from_sample"
    /\ pc' = "into_sample"
    /\ self' = ret
    /\ arg' = None
    /\ ret' = into_sample(fmt, ret)
    /\ base' = {arg}
    /\ UNCHANGED << fmt, ty, lerps >>

ToSampleFormat ==
    /\ pc = "new"
    /\ \E t \in GainTypes, s \in Samples, g \in Gains :
        /\ pc' = "to_sample_format"
        /\ ty' = t
        /\ self' = None
        /\ arg' = [s |-> s, g |-> g]
        /\ ret' = to_sample_format(fmt, t, s, g)
        /\ lerps' = IF fmt = "Stereo"
                    THEN [l |-> Stereo_l_lerp(g), r |-> Stereo_r_lerp(g)]
                    ELSE None
        /\ base' = {}
        /\ UNCHANGED fmt

Neg ==
    /\ pc = "new"
    /\ \E a \in Values(fmt) :
        /\ pc' = "neg"
        /\ self' = a
        /\ arg' = None
        /\ ret' = neg(fmt, a)
        /\ base' = {}
        /\ UNCHANGED << fmt, ty, lerps >>

\* a op b
Binary ==
    /\ pc = "new"
    /\ \E op \in BinaryOps :
      \E a \in Values(fmt), b \in Operands(fmt, op) :
        /\ pc' = op
        /\ self' = a
        /\ arg' = b
        /\ ret' = binary(fmt, op, a, b)
        /\ base' = {}
        /\ UNCHANGED << fmt, ty, lerps >>

\* (a + b) - b
SubOfAdd ==
    /\ pc = "add"
    /\ pc' = "sub"
    /\ self' = ret
    /\ arg' = arg
    /\ ret' = binary(fmt, "sub", ret, arg)
    /\ base' = {self}
    /\ UNCHANGED << fmt, ty, lerps >>

\* a op= b
Assign ==
    /\ pc = "new"
    /\ \E op \in BinaryOps :
      \E a \in Values(fmt), b \in Operands(fmt, op) :
        /\ pc' = op \o "_assign"
        /\ self' = a
        /\ arg' = b
        /\ ret' = assign(fmt, op, a, b)
        /\ base' = {}
        /\ UNCHANGED << fmt, ty, lerps >>

TryFrom ==
    /\ pc = "new"
    /\ \E t \in IntTypes :
      \E v \in Vecs(t) :
        /\ pc' = "try_from"
        /\ ty' = t
        /\ self' = None
        /\ arg' = v
        /\ ret' = try_from(fmt, t, v)
        /\ base' = {}
        /\ UNCHANGED << fmt, lerps >>

Into ==
    /\ pc = "new"
    /\ \E t \in IntTypes :
      \E a \in Values(fmt) :
        /\ pc' = "into"
        /\ ty' = t
        /\ self' = a
        /\ arg' = None
        /\ ret' = into_vec(fmt, t, a)
        /\ base' = {}
        /\ UNCHANGED << fmt, lerps >>

Next ==
    \/ FromSample
    \/ IntoSample
    \/ IntoSampleOfFromSample
    \/ ToSampleFormat
    \/ Neg
    \/ Binary
    \/ SubOfAdd
    \/ Assign
    \/ TryFrom
    \/ Into

Spec == Init /\ [][Next]_vars

(***************************************************************************)
(* Properties.                                                             *)
(***************************************************************************)
\* the codec a conversion of integer type t uses
Decode(t, x) ==
    CASE t = "u8" -> sample_from_u8(x)
      [] t = "i16" -> sample_from_i16(x)
      [] t = "i32" -> sample_from_i24(x)

Encode(t, s) ==
    CASE t = "u8" -> sample_to_u8(s)
      [] t = "i16" -> sample_to_i16(s)
      [] t = "i32" -> sample_to_i24(s)

\* s * db_to_linear(db), as to_sample_format multiplies
Attenuated(s, db) == AsFastMath(DMul(db_to_linear(FromInt(db)), s))

Panned == pc = "to_sample_format" /\ fmt = "Stereo"

\* C1: try_from of a vector shorter than num_samples() returns Err with
\* exactly "ERROR: Given vector was length {len}. This function requires
\* length {num_samples}." and constructs no value, for Mono and Stereo and
\* for each of u8, i16 and i32.
C1_ShortVectorIsRejected ==
    (pc = "try_from" /\ Len(arg) < num_samples(fmt)) =>
        /\ ~ ret.ok
        /\ DOMAIN ret = {"ok", "err"}
        /\ ret.err = "ERROR: Given vector was length " \o ToString(Len(arg))
                     \o ". This function requires length "
                     \o ToString(num_samples(fmt)) \o "."

\* a Stereo conversion of a one-element vector has returned its error
C1_Witness ==
    /\ pc = "try_from"
    /\ fmt = "Stereo"
    /\ ty = "i16"
    /\ Len(arg) = num_samples(fmt) - 1
    /\ ~ ret.ok

\* C2: try_from of a vector of at least num_samples() elements returns Ok, the
\* channels are decoded from the first num_samples() elements in order, and
\* every other vector with the same first num_samples() elements converts to
\* the same result.
C2_LongVectorUsesItsPrefix ==
    (pc = "try_from" /\ Len(arg) >= num_samples(fmt)) =>
        /\ ret.ok
        /\ IF fmt = "Mono"
           THEN ret.val = [mono |-> Decode(ty, arg[1])]
           ELSE ret.val = [left |-> Decode(ty, arg[1]), right |-> Decode(ty, arg[2])]
        /\ \A w \in Vecs(ty) :
             (/\ Len(w) >= num_samples(fmt)
              /\ SubSeq(w, 1, num_samples(fmt)) = SubSeq(arg, 1, num_samples(fmt)))
             => try_from(fmt, ty, w) = ret

\* a Stereo conversion of a three-element vector, whose trailing element
\* differs from both channels' elements, has succeeded
C2_Witness ==
    /\ pc = "try_from"
    /\ fmt = "Stereo"
    /\ Len(arg) = num_samples(fmt) + 1
    /\ arg[3] # arg[1]
    /\ arg[3] # arg[2]
    /\ arg[1] # arg[2]
    /\ ret.ok

\* C3: Stereo::from_sample(s).into_sample() equals s for every sample s.
C3_StereoRoundTrip ==
    (pc = "into_sample" /\ fmt = "Stereo" /\ base # {}) => ret \in base

\* C4: (a + b) - b equals a, for all Mono values and for all Stereo values.
C4_SubUndoesAdd ==
    (pc = "sub" /\ base # {}) => ret \in base

\* C5: to_sample_format(s, 0) applies -3 dB to the left channel and -3 dB to
\* the right channel, so left = right = s * db_to_linear(-3), in the f32 and
\* in the f64 implementation.
C5_CenterIsMinus3dB ==
    (Panned /\ arg.g = Zero) =>
        /\ lerps.l = FromInt(-3)
        /\ lerps.r = FromInt(-3)
        /\ ret.left = Attenuated(arg.s, -3)
        /\ ret.right = Attenuated(arg.s, -3)

\* C6: to_sample_format(s, 1) computes the right channel at 0 dB (right = s)
\* and the left channel at -120 dB, in the f32 and in the f64 implementation.
C6_HardRight ==
    (Panned /\ arg.g = One) =>
        /\ lerps.r = Zero
        /\ lerps.l = FromInt(-120)
        /\ ret.right = arg.s
        /\ ret.left = Attenuated(arg.s, -120)

\* C7: to_sample_format(s, -1) computes the left channel at 0 dB (left = s)
\* and the right channel at -120 dB, in the f32 and in the f64 implementation.
C7_HardLeft ==
    (Panned /\ arg.g = FromInt(-1)) =>
        /\ lerps.l = Zero
        /\ lerps.r = FromInt(-120)
        /\ ret.left = arg.s
        /\ ret.right = Attenuated(arg.s, -120)

\* C8: every conversion into Vec<u8>, Vec<i16> and Vec<i32> yields exactly
\* num_samples() elements in channel order: the encoding of mono for Mono,
\* the encoding of left and then the encoding of right for Stereo.
C8_IntoVecIsInChannelOrder ==
    pc = "into" =>
        /\ Len(ret) = num_samples(fmt)
        /\ IF fmt = "Mono"
           THEN ret = << Encode(ty, self.mono) >>
           ELSE ret = << Encode(ty, self.left), Encode(ty, self.right) >>

\* a Stereo value whose channels encode differently has been converted
C8_Witness ==
    /\ pc = "into"
    /\ fmt = "Stereo"
    /\ ty = "i16"
    /\ Len(ret) = 2
    /\ ret[1] # ret[2]

\* C9: for add, sub, mul by the own type, mul by Sample and mul by Math, of
\* Mono and of Stereo, after `x = a; x op= b` the value x equals a op b.
C9_AssignAgreesWithOperator ==
    \A op \in BinaryOps :
        pc = op \o "_assign" => ret = binary(fmt, op, self, arg)

\* C10: for every g in [-1, 1] the dB value to_sample_format(s, g) applies to
\* the left channel is the one to_sample_format(s, -g) applies to the right
\* channel, and the left sample of the one is the right sample of the other.
C10_CurvesAreMirrored ==
    Panned =>
        /\ lerps.l = Stereo_r_lerp(DNeg(arg.g))
        /\ ret.left = to_sample_format(fmt, ty, arg.s, DNeg(arg.g)).right

====
